---- MODULE Spec2Model ----
(***************************************************************************)
(* Model of idempo-go: the idempotency Wrapper (Wrap), its Manager         *)
(* (AlreadyProcessed, SaveSuccessOutput, SaveFailOutput), the memdb        *)
(* UnitOfWork and IdempotencyStore, and the money-transfer Action of the   *)
(* integration test that is wrapped by it.                                 *)
(***************************************************************************)
EXTENDS Integers, Sequences, FiniteSets, TLC

(***************************************************************************)
(* Bounds of the model.                                                    *)
(***************************************************************************)
\* Number of Wrap calls made in one behaviour.
MaxCalls == 3
\* Number of goroutines that may be inside Wrap at the same time.
NumProcs == 2
\* Balance every account starts with (fillDB).
InitBalance == 2

Procs == 1..NumProcs
\* Idempotency keys the callers use.
Keys == {"k1", "k2"}
\* Accounts in the accounts table.  "A:A" is an ordinary account id that
\* contains the separator TransferInput.Hash uses.
AccountIds == {"A", "A:A"}
\* Amounts of the transfers: one that the initial balance covers and one
\* that it does not.
Amounts == {1, 3}

\* dto.TransferInput
TransferInput == [FromAccount : AccountIds, ToAccount : AccountIds, Amount : Amounts]

\* No goroutine holds the memdb write lock.
NoWriter == 0

(***************************************************************************)
(* Errors.  An error value is the chain of messages that errors.Unwrap     *)
(* walks (outermost first), plus the originalExecErr that only a           *)
(* FailureOutputStoreError carries.  The nil error has an empty chain.     *)
(***************************************************************************)
NewError(chain) == [chain |-> chain, orig |-> <<>>]
Nil == NewError(<<>>)
ErrorPrefix == "idempotency error: "
ErrIdempotencyRecordNotFound == NewError(<<ErrorPrefix \o "record not found">>)
ErrHashMismatch ==
    NewError(<<ErrorPrefix \o "idempotency key already used with different input data">>)
ErrInsufficientFunds == NewError(<<"insufficient funds">>)
\* An error an AccountRepository call returns (a lost connection, a deadline).
ErrRepository == NewError(<<"account repository error">>)
\* The error a Serializer returns from Marshal.
ErrMarshal == NewError(<<"json: marshal error">>)
\* The error txn.Insert returns.
ErrInsert == NewError(<<"memdb: insert failed">>)

\* fmt.Errorf(msg + ": %w", err)
Errorf(msg, err) == NewError(<<msg>> \o err.chain)
\* errors.Is(err, target): target is err or one of the errors err wraps.
ErrorsIs(err, target) ==
    /\ target.chain # <<>>
    /\ \E i \in 1..Len(err.chain) : SubSeq(err.chain, i, Len(err.chain)) = target.chain
\* err.Error() of an error created by errors.New
ErrorString(err) == IF err.chain = <<>> THEN "" ELSE err.chain[1]

\* Mutant of NewSuccessOutputMarshalError: the Serializer's error is passed on
\* as it is.
NewSuccessOutputMarshalError_NoWrap(marshalErr) == marshalErr

NewSuccessOutputMarshalError(marshalErr) ==
    Errorf(ErrorPrefix \o "success output marshal error", marshalErr)
NewFailureOutputMarshalError(marshalErr) ==
    Errorf(ErrorPrefix \o "fail output marshal error", marshalErr)
NewSuccessOutputUnmarshalError(unmarshalErr) ==
    Errorf(ErrorPrefix \o "success output unmarshal error", unmarshalErr)
NewFailureOutputUnmarshalError(unmarshalErr) ==
    Errorf(ErrorPrefix \o "fail output unmarshal error", unmarshalErr)
\* &SuccessOutputStoreError{storeErr}; Unwrap gives storeErr.
NewSuccessOutputStoreError(storeErr) ==
    [chain |-> <<"SuccessOutputStoreError">> \o storeErr.chain, orig |-> <<>>]
\* Mutant of NewFailureOutputStoreError: the Action's error is not kept.
NewFailureOutputStoreError_DropsOriginal(storeErr, originalExecErr) ==
    [chain |-> <<"FailureOutputStoreError">> \o storeErr.chain, orig |-> <<>>]

\* &FailureOutputStoreError{storeErr, originalExecErr}; Unwrap gives storeErr.
NewFailureOutputStoreError(storeErr, originalExecErr) ==
    [chain |-> <<"FailureOutputStoreError">> \o storeErr.chain,
     orig  |-> originalExecErr.chain]
IsSuccessOutputStoreError(err) ==
    err.chain # <<>> /\ err.chain[1] = "SuccessOutputStoreError"
IsFailureOutputStoreError(err) ==
    err.chain # <<>> /\ err.chain[1] = "FailureOutputStoreError"
\* e.storeErr of a Success/FailureOutputStoreError
StoreErrOf(err) == NewError(Tail(err.chain))
\* e.originalExecErr of a FailureOutputStoreError
OriginalExecErrOf(err) == NewError(err.orig)

(***************************************************************************)
(* Outputs and their JSON encoding.                                        *)
(***************************************************************************)
\* uuid.New().String(): the n-th identifier drawn.
Uuid(n) == "uuid-" \o ToString(n)
UuidValues == {Uuid(n) : n \in 1..(MaxCalls + 1)}
\* dto.TransferSuccess and its zero value
TransferSuccess(id) == [TransactionID |-> id]
ZeroSuccess == TransferSuccess("")
SuccessValues == {TransferSuccess(id) : id \in UuidValues \cup {""}}
\* dto.TransferFailure and its zero value
TransferFailure(reason) == [Reason |-> reason]
ZeroFailure == TransferFailure("")
FailureValues == {TransferFailure(r) : r \in {"", ErrorString(ErrInsufficientFunds)}}

\* Mutant of MarshalSuccess: the identifier is left out of the encoding.
MarshalSuccess_DropsId(v) == "{\"TransactionID\":\"\"}"

\* JSONSerializer[TransferSuccess].Marshal
MarshalSuccess(v) == "{\"TransactionID\":\"" \o v.TransactionID \o "\"}"
\* JSONSerializer[TransferFailure].Marshal
MarshalFailure(v) == "{\"Reason\":\"" \o v.Reason \o "\"}"
\* JSONSerializer[TransferSuccess].Unmarshal: the value the text encodes, or an
\* error when the text is not the encoding of a TransferSuccess.
UnmarshalSuccess(bs) ==
    IF \E v \in SuccessValues : MarshalSuccess(v) = bs
    THEN [v |-> CHOOSE v \in SuccessValues : MarshalSuccess(v) = bs, err |-> Nil]
    ELSE [v |-> ZeroSuccess, err |-> NewError(<<"json: unmarshal error">>)]
\* JSONSerializer[TransferFailure].Unmarshal
UnmarshalFailure(bs) ==
    IF \E v \in FailureValues : MarshalFailure(v) = bs
    THEN [v |-> CHOOSE v \in FailureValues : MarshalFailure(v) = bs, err |-> Nil]
    ELSE [v |-> ZeroFailure, err |-> NewError(<<"json: unmarshal error">>)]

\* Mutant of FailureToError: the stored reason is turned into another error.
FailureToError_OtherError(failure) == NewError(<<"transfer failed">>)

\* Config.FailureToError of the transfer service
FailureToError(failure) == ErrInsufficientFunds
\* Config.ErrorToFailure of the transfer service
ErrorToFailure(err) ==
    IF ErrorsIs(err, ErrInsufficientFunds)
    THEN [ok |-> TRUE, failure |-> TransferFailure(ErrorString(err))]
    ELSE [ok |-> FALSE, failure |-> ZeroFailure]

\* TransferInput.Hash: fmt.Sprintf("%s:%s:%d", FromAccount, ToAccount, Amount)
Hash(in) == in.FromAccount \o ":" \o in.ToAccount \o ":" \o ToString(in.Amount)

(***************************************************************************)
(* The idempotency table and the store over it.                            *)
(***************************************************************************)
\* idempo.Record
Record(id, inputHash, successOutput, output) ==
    [ID |-> id, InputHash |-> inputHash, SuccessOutput |-> successOutput,
     Output |-> output]
ZeroRecord == Record("", "", FALSE, "")

\* Mutant of Get: no stored record is ever found.
Get_NeverFinds(records, id) ==
    [record |-> ZeroRecord, err |-> ErrIdempotencyRecordNotFound]

\* IdempotencyStore.Get over the records of the transaction.
Get(records, id) ==
    LET raw == {r \in records : r.ID = id} IN
    IF raw = {}
    THEN [record |-> ZeroRecord, err |-> ErrIdempotencyRecordNotFound]
    ELSE [record |-> CHOOSE r \in raw : TRUE, err |-> Nil]

\* txn.Insert on a table with a unique "id" index: the object takes the place
\* of the one stored under the same id, if any.
Insert(records, record) == {r \in records : r.ID # record.ID} \cup {record}

\* IdempotencyStore.Save; insertFails says that txn.Insert returns an error.
Save(records, record, insertFails) ==
    IF insertFails
    THEN [records |-> records,
          err |-> Errorf(ErrorPrefix \o "memdb insert error", ErrInsert)]
    ELSE [records |-> Insert(records, record), err |-> Nil]

(***************************************************************************)
(* The Manager.                                                            *)
(***************************************************************************)
\* Mutant of AlreadyProcessed: the input hash is not compared.
AlreadyProcessed_NoHashCheck(records, idempotencyKey, inputHash) ==
    LET got == Get(records, idempotencyKey) IN
    IF got.err # Nil
    THEN [ok |-> FALSE, successOutput |-> ZeroSuccess,
          err |-> IF got.err = ErrIdempotencyRecordNotFound THEN Nil ELSE got.err]
    ELSE IF got.record.SuccessOutput
    THEN LET u == UnmarshalSuccess(got.record.Output) IN
         [ok |-> TRUE, successOutput |-> u.v,
          err |-> IF u.err # Nil THEN NewSuccessOutputUnmarshalError(u.err) ELSE Nil]
    ELSE LET u == UnmarshalFailure(got.record.Output) IN
         [ok |-> TRUE, successOutput |-> ZeroSuccess,
          err |-> IF u.err # Nil THEN NewFailureOutputUnmarshalError(u.err)
                  ELSE FailureToError(u.v)]

\* Mutant of AlreadyProcessed: a Record with another fingerprint counts as no
\* Record.
AlreadyProcessed_MismatchIsNotFound(records, idempotencyKey, inputHash) ==
    LET got == Get(records, idempotencyKey) IN
    IF got.err # Nil \/ got.record.InputHash # inputHash
    THEN [ok |-> FALSE, successOutput |-> ZeroSuccess,
          err |-> IF got.err \in {Nil, ErrIdempotencyRecordNotFound}
                  THEN Nil ELSE got.err]
    ELSE IF got.record.SuccessOutput
    THEN LET u == UnmarshalSuccess(got.record.Output) IN
         [ok |-> TRUE, successOutput |-> u.v,
          err |-> IF u.err # Nil THEN NewSuccessOutputUnmarshalError(u.err) ELSE Nil]
    ELSE LET u == UnmarshalFailure(got.record.Output) IN
         [ok |-> TRUE, successOutput |-> ZeroSuccess,
          err |-> IF u.err # Nil THEN NewFailureOutputUnmarshalError(u.err)
                  ELSE FailureToError(u.v)]

\* Mutant of AlreadyProcessed: the store's not-found error is passed on.
AlreadyProcessed_NotFoundIsError(records, idempotencyKey, inputHash) ==
    LET got == Get(records, idempotencyKey) IN
    IF got.err # Nil
    THEN [ok |-> FALSE, successOutput |-> ZeroSuccess, err |-> got.err]
    ELSE IF got.record.InputHash # inputHash
    THEN [ok |-> FALSE, successOutput |-> ZeroSuccess, err |-> ErrHashMismatch]
    ELSE IF got.record.SuccessOutput
    THEN LET u == UnmarshalSuccess(got.record.Output) IN
         [ok |-> TRUE, successOutput |-> u.v,
          err |-> IF u.err # Nil THEN NewSuccessOutputUnmarshalError(u.err) ELSE Nil]
    ELSE LET u == UnmarshalFailure(got.record.Output) IN
         [ok |-> TRUE, successOutput |-> ZeroSuccess,
          err |-> IF u.err # Nil THEN NewFailureOutputUnmarshalError(u.err)
                  ELSE FailureToError(u.v)]

\* Mutant of AlreadyProcessed: a failure Record counts as no Record, so a
\* failed call is executed again.
AlreadyProcessed_FailuresNotCached(records, idempotencyKey, inputHash) ==
    LET got == Get(records, idempotencyKey) IN
    IF got.err # Nil
    THEN [ok |-> FALSE, successOutput |-> ZeroSuccess,
          err |-> IF got.err = ErrIdempotencyRecordNotFound THEN Nil ELSE got.err]
    ELSE IF got.record.InputHash # inputHash
    THEN [ok |-> FALSE, successOutput |-> ZeroSuccess, err |-> ErrHashMismatch]
    ELSE IF got.record.SuccessOutput
    THEN LET u == UnmarshalSuccess(got.record.Output) IN
         [ok |-> TRUE, successOutput |-> u.v,
          err |-> IF u.err # Nil THEN NewSuccessOutputUnmarshalError(u.err) ELSE Nil]
    ELSE [ok |-> FALSE, successOutput |-> ZeroSuccess, err |-> Nil]

\* Mutant of AlreadyProcessed: when the key has no Record, a Record of any key
\* with the fingerprint is taken.
AlreadyProcessed_LooksUpByHash(records, idempotencyKey, inputHash) ==
    LET byKey  == Get(records, idempotencyKey)
        byHash == {r \in records : r.InputHash = inputHash}
        got    == IF byKey.err = ErrIdempotencyRecordNotFound /\ byHash # {}
                  THEN [record |-> CHOOSE r \in byHash : TRUE, err |-> Nil]
                  ELSE byKey
    IN
    IF got.err # Nil
    THEN [ok |-> FALSE, successOutput |-> ZeroSuccess,
          err |-> IF got.err = ErrIdempotencyRecordNotFound THEN Nil ELSE got.err]
    ELSE IF got.record.InputHash # inputHash
    THEN [ok |-> FALSE, successOutput |-> ZeroSuccess, err |-> ErrHashMismatch]
    ELSE IF got.record.SuccessOutput
    THEN LET u == UnmarshalSuccess(got.record.Output) IN
         [ok |-> TRUE, successOutput |-> u.v,
          err |-> IF u.err # Nil THEN NewSuccessOutputUnmarshalError(u.err) ELSE Nil]
    ELSE LET u == UnmarshalFailure(got.record.Output) IN
         [ok |-> TRUE, successOutput |-> ZeroSuccess,
          err |-> IF u.err # Nil THEN NewFailureOutputUnmarshalError(u.err)
                  ELSE FailureToError(u.v)]

\* manager.AlreadyProcessed
AlreadyProcessed(records, idempotencyKey, inputHash) ==
    LET got == Get(records, idempotencyKey) IN
    IF got.err # Nil
    THEN [ok |-> FALSE, successOutput |-> ZeroSuccess,
          err |-> IF got.err = ErrIdempotencyRecordNotFound THEN Nil ELSE got.err]
    ELSE IF got.record.InputHash # inputHash
    THEN [ok |-> FALSE, successOutput |-> ZeroSuccess, err |-> ErrHashMismatch]
    ELSE IF got.record.SuccessOutput
    THEN LET u == UnmarshalSuccess(got.record.Output) IN
         [ok |-> TRUE, successOutput |-> u.v,
          err |-> IF u.err # Nil THEN NewSuccessOutputUnmarshalError(u.err) ELSE Nil]
    ELSE LET u == UnmarshalFailure(got.record.Output) IN
         [ok |-> TRUE, successOutput |-> ZeroSuccess,
          err |-> IF u.err # Nil THEN NewFailureOutputUnmarshalError(u.err)
                  ELSE FailureToError(u.v)]

\* The ways a save can go: both calls succeed, Marshal fails, store.Save fails.
SaveFaults == {"none", "marshal", "store"}

\* Mutant of SaveSuccessOutput: the Record is saved, with an empty payload,
\* also when Marshal fails.
SaveSuccessOutput_SavesOnMarshalError(records, idempotencyKey, inputHash, successOutput, fault) ==
    IF fault = "marshal"
    THEN [records |-> Insert(records, Record(idempotencyKey, inputHash, TRUE, "")),
          err |-> NewSuccessOutputMarshalError(ErrMarshal)]
    ELSE Save(records,
              Record(idempotencyKey, inputHash, TRUE, MarshalSuccess(successOutput)),
              fault = "store")

\* manager.SaveSuccessOutput
SaveSuccessOutput(records, idempotencyKey, inputHash, successOutput, fault) ==
    IF fault = "marshal"
    THEN [records |-> records, err |-> NewSuccessOutputMarshalError(ErrMarshal)]
    ELSE Save(records,
              Record(idempotencyKey, inputHash, TRUE, MarshalSuccess(successOutput)),
              fault = "store")

\* Mutant of SaveFailOutput: the Record is flagged as a success.
SaveFailOutput_MarksSuccess(records, idempotencyKey, inputHash, failOutput, fault) ==
    IF fault = "marshal"
    THEN [records |-> records, err |-> NewFailureOutputMarshalError(ErrMarshal)]
    ELSE Save(records,
              Record(idempotencyKey, inputHash, TRUE, MarshalFailure(failOutput)),
              fault = "store")

\* manager.SaveFailOutput
SaveFailOutput(records, idempotencyKey, inputHash, failOutput, fault) ==
    IF fault = "marshal"
    THEN [records |-> records, err |-> NewFailureOutputMarshalError(ErrMarshal)]
    ELSE Save(records,
              Record(idempotencyKey, inputHash, FALSE, MarshalFailure(failOutput)),
              fault = "store")

(***************************************************************************)
(* The Action: the transfer of the integration test.                       *)
(***************************************************************************)
\* domain.Transfer on the two Account values it is given.
Transfer(from, to, amount) ==
    IF from < amount
    THEN [from |-> from, to |-> to, err |-> ErrInsufficientFunds]
    ELSE [from |-> from - amount, to |-> to + amount, err |-> Nil]

\* The AccountRepository call of doTransfer that returns an error, if any.
RepoFaults == {"none", "getFrom", "getTo", "updateFrom", "updateTo"}

\* Mutant of DoTransfer: the receiving account is credited before the funds
\* of the sending account are checked.
DoTransfer_UpdatesBeforeCheck(accounts, input, fault, id) ==
    LET from == accounts[input.FromAccount]
        to   == accounts[input.ToAccount]
        t    == Transfer(from, to, input.Amount)
        credited  == [accounts EXCEPT ![input.ToAccount] = @ + input.Amount]
        afterFrom == [accounts EXCEPT ![input.FromAccount] = t.from]
        afterTo   == [afterFrom EXCEPT ![input.ToAccount] = t.to]
    IN
    IF fault \in {"getFrom", "getTo"}
    THEN [accounts |-> accounts, result |-> ZeroSuccess, err |-> ErrRepository]
    ELSE IF t.err # Nil
    THEN [accounts |-> credited, result |-> ZeroSuccess, err |-> t.err]
    ELSE IF fault = "updateFrom"
    THEN [accounts |-> accounts, result |-> ZeroSuccess, err |-> ErrRepository]
    ELSE IF fault = "updateTo"
    THEN [accounts |-> afterFrom, result |-> ZeroSuccess, err |-> ErrRepository]
    ELSE [accounts |-> afterTo, result |-> TransferSuccess(id), err |-> Nil]

\* TransferService.doTransfer on the accounts of the transaction; id is the
\* identifier uuid.New() would draw.
DoTransfer(accounts, input, fault, id) ==
    LET from == accounts[input.FromAccount]
        to   == accounts[input.ToAccount]
        t    == Transfer(from, to, input.Amount)
        afterFrom == [accounts EXCEPT ![input.FromAccount] = t.from]
        afterTo   == [afterFrom EXCEPT ![input.ToAccount] = t.to]
    IN
    IF fault \in {"getFrom", "getTo"}
    THEN [accounts |-> accounts, result |-> ZeroSuccess, err |-> ErrRepository]
    ELSE IF t.err # Nil
    THEN [accounts |-> accounts, result |-> ZeroSuccess, err |-> t.err]
    ELSE IF fault = "updateFrom"
    THEN [accounts |-> accounts, result |-> ZeroSuccess, err |-> ErrRepository]
    ELSE IF fault = "updateTo"
    THEN [accounts |-> afterFrom, result |-> ZeroSuccess, err |-> ErrRepository]
    ELSE [accounts |-> afterTo, result |-> TransferSuccess(id), err |-> Nil]

(***************************************************************************)
(* State.                                                                  *)
(***************************************************************************)
VARIABLES
    db,         \* the committed memdb root: accounts and idempotency records
    writer,     \* the goroutine holding the memdb write lock, or NoWriter
    inv,        \* per goroutine: the Wrap invocation it is in
    nextUuid,   \* how many identifiers uuid.New() has drawn
    calls,      \* how many Wrap calls were made
    \* History of the run, kept to state the properties:
    callsOf,    \* per key: how many Wrap calls were made with it
    actionRuns, \* per key: how many times the Action was invoked under it
    last,       \* per key: the latest Wrap call with it that has returned
    recorded,   \* per key: the Wrap call that committed the Record of the key
    committedRuns, \* per key: the Action runs whose transaction committed
    sameInput   \* per key: all Wrap calls with it carried the same input

vars == <<db, writer, inv, nextUuid, calls,
          callsOf, actionRuns, last, recorded, committedRuns, sameInput>>
history == <<callsOf, actionRuns, last, recorded, committedRuns, sameInput>>

\* The tables of a memdb root or transaction.
Tables(accounts, records) == [accounts |-> accounts, records |-> records]
EmptyTables == Tables([a \in AccountIds |-> 0], {})

\* The Records of the idempotency table of t that are stored under key k.
RecordsOf(t, k) == {r \in t.records : r.ID = k}

AnyInput == CHOOSE in \in TransferInput : TRUE

\* What is remembered of a Wrap call that has returned; nth = 0: no such call.
NoCall ==
    [nth |-> 0, input |-> AnyInput, successOutput |-> ZeroSuccess, err |-> Nil,
     ranAction |-> FALSE, actionErr |-> Nil, committed |-> FALSE]

\* A goroutine that is not inside Wrap.
Idle ==
    [pc |-> "idle", key |-> "", input |-> AnyInput,
     hash |-> "", ok |-> FALSE, successOutput |-> ZeroSuccess, err |-> Nil,
     fnErr |-> Nil, snap |-> EmptyTables, tx |-> EmptyTables,
     \* history of the call
     nth |-> 0, alone |-> FALSE, partners |-> {},
     ranAction |-> FALSE, actionErr |-> Nil, storeErr |-> Nil, committed |-> FALSE,
     began |-> FALSE, hashErr |-> Nil, lookupErr |-> Nil]

\* fillDB: every account is added with the initial balance; no record exists.
Init ==
    /\ db = Tables([a \in AccountIds |-> InitBalance], {})
    /\ writer = NoWriter
    /\ inv = [p \in Procs |-> Idle]
    /\ nextUuid = 0
    /\ calls = 0
    /\ callsOf = [k \in Keys |-> 0]
    /\ actionRuns = [k \in Keys |-> 0]
    /\ last = [k \in Keys |-> NoCall]
    /\ recorded = [k \in Keys |-> NoCall]
    /\ committedRuns = [k \in Keys |-> <<>>]
    /\ sameInput = [k \in Keys |-> TRUE]

(***************************************************************************)
(* Wrap, step by step.  The steps between Begin and Finish are the         *)
(* transaction function Wrap hands to UnitOfWork.Execute.                  *)
(***************************************************************************)
\* The caller reads the result of a returned Wrap call before anything else
\* happens.
Observed == \A q \in Procs : inv[q].pc # "done"

\* The goroutines inside a Wrap call with key k.
InFlight(k) == {q \in Procs : inv[q].pc # "idle" /\ inv[q].key = k}

\* Wrap is entered and the input is hashed (TransferInput.Hash returns no error).
Call(p, k, in) ==
    /\ Observed
    /\ calls < MaxCalls
    /\ inv[p].pc = "idle"
    /\ inv' = [q \in Procs |->
                 IF q = p
                 THEN [Idle EXCEPT
                         !.pc = "begin", !.key = k, !.input = in, !.hash = Hash(in),
                         !.nth = callsOf[k] + 1,
                         !.alone = (InFlight(k) = {}),
                         !.partners = {inv[r].nth : r \in
                                          {r \in InFlight(k) : inv[r].input = in}}]
                 ELSE IF q \in InFlight(k)
                 THEN [inv[q] EXCEPT
                         !.alone = FALSE,
                         !.partners = IF inv[q].input = in
                                      THEN @ \cup {callsOf[k] + 1} ELSE @]
                 ELSE inv[q]]
    /\ calls' = calls + 1
    /\ callsOf' = [callsOf EXCEPT ![k] = @ + 1]
    /\ sameInput' = [sameInput EXCEPT ![k] =
                        /\ @
                        /\ \A q \in InFlight(k) : inv[q].input = in
                        /\ last[k].nth > 0 => last[k].input = in]
    /\ UNCHANGED <<db, writer, nextUuid, actionRuns, last, recorded, committedRuns>>

\* Mutant of CanBegin: write transactions do not exclude each other.
CanBegin_NoLock(w) == TRUE

\* db.Txn(true) returns once no other write transaction is open.
CanBegin(w) == w = NoWriter

\* UnitOfWork.Execute opens the write transaction on the committed root.
Begin(p) ==
    /\ Observed
    /\ inv[p].pc = "begin"
    /\ CanBegin(writer)
    /\ writer' = p
    /\ inv' = [inv EXCEPT ![p].pc = "lookup", ![p].snap = db, ![p].tx = db,
                          ![p].began = TRUE]
    /\ UNCHANGED <<db, nextUuid, calls, history>>

\* The idempotency check of the transaction function.
Lookup(p) ==
    /\ Observed
    /\ inv[p].pc = "lookup"
    /\ LET r == AlreadyProcessed(inv[p].tx.records, inv[p].key, inv[p].hash) IN
       inv' = [inv EXCEPT ![p].ok = r.ok,
                          ![p].successOutput = r.successOutput,
                          ![p].fnErr = r.err,
                          ![p].pc = IF r.ok \/ r.err # Nil THEN "finish" ELSE "action"]
    /\ UNCHANGED <<db, writer, nextUuid, calls, history>>

\* Mutant of AfterAction: every error of the Action is saved as a failure.
AfterAction_SavesEveryError(actionErr) ==
    IF actionErr = Nil THEN "saveSuccess" ELSE "saveFail"

\* Mutant of AfterAction: the outcome of a successful Action is not saved.
AfterAction_NoSuccessRecord(actionErr) ==
    IF actionErr = Nil THEN "finish"
    ELSE IF ErrorToFailure(actionErr).ok THEN "saveFail"
    ELSE "finish"

\* Where the transaction function goes once the Action has returned actionErr.
AfterAction(actionErr) ==
    IF actionErr = Nil THEN "saveSuccess"
    ELSE IF ErrorToFailure(actionErr).ok THEN "saveFail"
    ELSE "finish"

\* The Action runs on the repositories of the transaction.
RunAction(p) ==
    /\ Observed
    /\ inv[p].pc = "action"
    /\ \E fault \in RepoFaults :
         LET r == DoTransfer(inv[p].tx.accounts, inv[p].input, fault,
                             Uuid(nextUuid + 1))
         IN
         /\ inv' = [inv EXCEPT ![p].successOutput = r.result,
                               ![p].fnErr = r.err,
                               ![p].tx.accounts = r.accounts,
                               ![p].ranAction = TRUE,
                               ![p].actionErr = r.err,
                               ![p].pc = AfterAction(r.err)]
         /\ nextUuid' = IF r.err = Nil THEN nextUuid + 1 ELSE nextUuid
    /\ actionRuns' = [actionRuns EXCEPT ![inv[p].key] = @ + 1]
    /\ UNCHANGED <<db, writer, calls, callsOf, last, recorded, committedRuns, sameInput>>

\* The Action failed with a business error: the failure output is saved.
SaveFail(p) ==
    /\ Observed
    /\ inv[p].pc = "saveFail"
    /\ \E fault \in SaveFaults :
         LET s == SaveFailOutput(inv[p].tx.records, inv[p].key, inv[p].hash,
                                 ErrorToFailure(inv[p].fnErr).failure, fault)
         IN
         inv' = [inv EXCEPT
                   ![p].tx.records = s.records,
                   ![p].err = IF s.err # Nil THEN @ ELSE inv[p].fnErr,
                   ![p].fnErr = IF s.err # Nil
                                THEN NewFailureOutputStoreError(s.err, inv[p].fnErr)
                                ELSE Nil,
                   ![p].storeErr = s.err,
                   ![p].pc = "finish"]
    /\ UNCHANGED <<db, writer, nextUuid, calls, history>>

\* The Action succeeded: the success output is saved.
SaveSuccess(p) ==
    /\ Observed
    /\ inv[p].pc = "saveSuccess"
    /\ \E fault \in SaveFaults :
         LET s == SaveSuccessOutput(inv[p].tx.records, inv[p].key, inv[p].hash,
                                    inv[p].successOutput, fault)
         IN
         inv' = [inv EXCEPT
                   ![p].tx.records = s.records,
                   ![p].fnErr = IF s.err # Nil THEN NewSuccessOutputStoreError(s.err)
                                ELSE Nil,
                   ![p].storeErr = s.err,
                   ![p].pc = "finish"]
    /\ UNCHANGED <<db, writer, nextUuid, calls, history>>

\* Mutant of Commits: the transaction is committed whatever fn returned.
Commits_Always(fnErr) == TRUE

\* Mutant of Commits: the transaction is never committed.
Commits_Never(fnErr) == FALSE

\* UnitOfWork.Execute commits when the transaction function returned nil.
Commits(fnErr) == fnErr = Nil

\* What a Wrap call leaves behind once it has returned.
Summary(c) ==
    [nth |-> c.nth, input |-> c.input, successOutput |-> c.successOutput,
     err |-> c.err, ranAction |-> c.ranAction, actionErr |-> c.actionErr,
     committed |-> c.committed]

\* Mutant of Finish: the write transaction is ended on commit only; when the
\* transaction function returned an error it is left open.
Finish_AbortMissing(p) ==
    LET k      == inv[p].key
        commit == Commits(inv[p].fnErr)
        after  == [inv[p] EXCEPT
                     !.err = IF inv[p].fnErr # Nil THEN inv[p].fnErr ELSE @,
                     !.committed = commit,
                     !.pc = "done"]
    IN
    /\ Observed
    /\ inv[p].pc = "finish"
    /\ db' = IF commit THEN inv[p].tx ELSE db
    /\ writer' = IF commit THEN NoWriter ELSE writer
    /\ inv' = [inv EXCEPT ![p] = after]
    /\ committedRuns' =
          IF commit /\ inv[p].ranAction
          THEN [committedRuns EXCEPT ![k] =
                   Append(@, [input |-> inv[p].input, actionErr |-> inv[p].actionErr])]
          ELSE committedRuns
    /\ recorded' = IF RecordsOf(db, k) = {} /\ RecordsOf(db', k) # {}
                   THEN [recorded EXCEPT ![k] = Summary(after)]
                   ELSE recorded
    /\ UNCHANGED <<nextUuid, calls, callsOf, actionRuns, last, sameInput>>

\* The transaction function has returned: Execute commits or aborts, and Wrap
\* returns.
Finish(p) ==
    LET k      == inv[p].key
        commit == Commits(inv[p].fnErr)
        after  == [inv[p] EXCEPT
                     !.err = IF inv[p].fnErr # Nil THEN inv[p].fnErr ELSE @,
                     !.committed = commit,
                     !.pc = "done"]
    IN
    /\ Observed
    /\ inv[p].pc = "finish"
    /\ db' = IF commit THEN inv[p].tx ELSE db
    /\ writer' = NoWriter
    /\ inv' = [inv EXCEPT ![p] = after]
    /\ committedRuns' =
          IF commit /\ inv[p].ranAction
          THEN [committedRuns EXCEPT ![k] =
                   Append(@, [input |-> inv[p].input, actionErr |-> inv[p].actionErr])]
          ELSE committedRuns
    /\ recorded' = IF RecordsOf(db, k) = {} /\ RecordsOf(db', k) # {}
                   THEN [recorded EXCEPT ![k] = Summary(after)]
                   ELSE recorded
    /\ UNCHANGED <<nextUuid, calls, callsOf, actionRuns, last, sameInput>>

\* The caller has the result; the goroutine leaves Wrap.
Return(p) ==
    /\ inv[p].pc = "done"
    /\ last' = [last EXCEPT ![inv[p].key] = Summary(inv[p])]
    /\ inv' = [inv EXCEPT ![p] = Idle]
    /\ UNCHANGED <<db, writer, nextUuid, calls, callsOf, actionRuns, recorded,
                   committedRuns, sameInput>>

Next ==
    \E p \in Procs :
        \/ \E k \in Keys, in \in TransferInput : Call(p, k, in)
        \/ Begin(p)
        \/ Lookup(p)
        \/ RunAction(p)
        \/ SaveFail(p)
        \/ SaveSuccess(p)
        \/ Finish(p)
        \/ Return(p)

Spec == Init /\ [][Next]_vars

(***************************************************************************)
(* Properties.                                                             *)
(***************************************************************************)
\* The Wrap call of goroutine p has returned and its result is being read.
Done(p) == inv[p].pc = "done"
KeyOf(p) == inv[p].key
\* The Records stored under the key of p in the committed state p's
\* transaction started from.
SeenRecords(p) == RecordsOf(inv[p].snap, inv[p].key)
\* Two calls returned the same success output and the same error.
SameResult(c, d) == c.successOutput = d.successOutput /\ c.err = d.err
\* The call of p is the second call with its key, made after the first one
\* returned, with no other call with the key running meanwhile.
SecondAfterFirst(p) ==
    /\ Done(p)
    /\ inv[p].alone
    /\ inv[p].nth = 2
    /\ last[KeyOf(p)].nth = 1
\* The call of p was given the input of the call that committed the Record of
\* its key, after that Record was committed.
ReplayOfRecorded(p) ==
    /\ Done(p)
    /\ SeenRecords(p) # {}
    /\ recorded[KeyOf(p)].input = inv[p].input

\* C1 as stated: over calls with one key that all carry the same input, the
\* Action is invoked at most once, and the second call returns what the first
\* call returned.
C1_IdempotenceAsStated ==
    /\ \A k \in Keys : sameInput[k] => actionRuns[k] <= 1
    /\ \A p \in Procs :
         (SecondAfterFirst(p) /\ last[KeyOf(p)].input = inv[p].input)
            => SameResult(inv[p], last[KeyOf(p)])

\* C1 as amended: once a call has committed a Record for the key, every later
\* call with the key and the same input returns what that call returned and
\* does not invoke the Action; and over calls with one key that all carry the
\* same input, at most one transaction in which the Action ran is committed.
C1_IdempotenceOnceRecorded ==
    /\ \A k \in Keys : sameInput[k] => Len(committedRuns[k]) <= 1
    /\ \A p \in Procs :
         ReplayOfRecorded(p)
            => SameResult(inv[p], recorded[KeyOf(p)]) /\ ~inv[p].ranAction

\* A third call replays the Record of its key, all calls carrying one input,
\* after the first call with the key ran the Action and rolled back.
C1_Witness ==
    \E p \in Procs :
        /\ ReplayOfRecorded(p)
        /\ sameInput[KeyOf(p)]
        /\ inv[p].nth = 3
        /\ actionRuns[KeyOf(p)] = 2
        /\ Len(committedRuns[KeyOf(p)]) = 1

\* C2: a call whose transaction starts from a state holding a success Record
\* for its key with the fingerprint of its input returns a nil error and the
\* success output returned by the call that committed the Record, and does
\* not invoke the Action.
C2_ReplayOfSuccess ==
    \A p \in Procs :
        (Done(p) /\ \E r \in SeenRecords(p) : r.SuccessOutput /\ r.InputHash = inv[p].hash)
           => /\ inv[p].err = Nil
              /\ recorded[KeyOf(p)].err = Nil
              /\ inv[p].successOutput = recorded[KeyOf(p)].successOutput
              /\ inv[p].successOutput # ZeroSuccess
              /\ ~inv[p].ranAction

\* A success Record is replayed: the call returns a transaction id it did not
\* draw itself.
C2_Witness ==
    \E p \in Procs :
        /\ Done(p)
        /\ \E r \in SeenRecords(p) : r.SuccessOutput /\ r.InputHash = inv[p].hash
        /\ inv[p].successOutput = TransferSuccess(Uuid(1))
        /\ ~inv[p].ranAction

\* C3 as stated: the second call with a key, whose input has another
\* fingerprint than the input of the first call, fails with ErrHashMismatch and
\* does not invoke the Action.
C3_FingerprintIntegrityAsStated ==
    \A p \in Procs :
        (SecondAfterFirst(p) /\ Hash(last[KeyOf(p)].input) # inv[p].hash)
           => inv[p].err = ErrHashMismatch /\ ~inv[p].ranAction

\* C3 as amended: a call whose transaction starts from a state holding a
\* Record for its key with another fingerprint than that of its input fails
\* with ErrHashMismatch, does not invoke the Action and commits nothing.
C3_FingerprintIntegrityOnceRecorded ==
    \A p \in Procs :
        (Done(p) /\ \E r \in SeenRecords(p) : r.InputHash # inv[p].hash)
           => /\ inv[p].err = ErrHashMismatch
              /\ ~inv[p].ranAction
              /\ ~inv[p].committed
              /\ inv[p].successOutput = ZeroSuccess

\* A call is rejected because the Record of its key has another fingerprint.
C3_Witness ==
    \E p \in Procs :
        /\ Done(p)
        /\ \E r \in SeenRecords(p) : r.InputHash # inv[p].hash
        /\ inv[p].err = ErrHashMismatch

\* C4: a Transfer with the key of a committed Record and an input that differs
\* from the input the Record was committed for (in FromAccount, ToAccount or
\* Amount) fails with the hash mismatch error.
C4_DifferentInputIsRejected ==
    \A p \in Procs :
        (Done(p) /\ SeenRecords(p) # {} /\ recorded[KeyOf(p)].input # inv[p].input)
           => inv[p].err = ErrHashMismatch

\* The error-to-failure mapping classifies e as a business failure.
IsBusinessFailure(e) == e # Nil /\ ErrorToFailure(e).ok
\* e is an error the error-to-failure mapping does not classify.
IsSystemFailure(e) == e # Nil /\ ~ErrorToFailure(e).ok

\* C5: when the Action fails with a business failure and the failure Record is
\* saved, the call returns the Action's error and its transaction commits the
\* failure Record; every later call with the key and the same input returns
\* that error and does not invoke the Action.
C5_ReplayOfBusinessFailure ==
    \A p \in Procs :
        /\ (Done(p) /\ inv[p].ranAction /\ IsBusinessFailure(inv[p].actionErr)
              /\ inv[p].storeErr = Nil)
             => /\ inv[p].err = inv[p].actionErr
                /\ inv[p].committed
                /\ \E r \in RecordsOf(db, KeyOf(p)) :
                      ~r.SuccessOutput /\ r.InputHash = inv[p].hash
                /\ recorded[KeyOf(p)].nth = inv[p].nth
        /\ (ReplayOfRecorded(p) /\ IsBusinessFailure(recorded[KeyOf(p)].actionErr))
             => /\ inv[p].err = recorded[KeyOf(p)].actionErr
                /\ ~inv[p].ranAction

\* A recorded insufficient-funds failure is replayed.
C5_Witness ==
    \E p \in Procs :
        /\ ReplayOfRecorded(p)
        /\ IsBusinessFailure(recorded[KeyOf(p)].actionErr)
        /\ inv[p].err = ErrInsufficientFunds
        /\ ~inv[p].ranAction

\* The call of p follows, with the same key and input and no other call with
\* the key running meanwhile, a call whose Action failed with an error that
\* is not classified.
RetryOfSystemFailure(p) ==
    /\ Done(p)
    /\ inv[p].alone
    /\ last[KeyOf(p)].nth > 0
    /\ last[KeyOf(p)].ranAction
    /\ IsSystemFailure(last[KeyOf(p)].actionErr)
    /\ last[KeyOf(p)].input = inv[p].input

\* C6: when the Action fails with an error that is not classified, the call
\* returns that error, its transaction is rolled back and the committed state
\* holds no Record for the key; a retry with the key and the input invokes
\* the Action again.
C6_SystemFailureNotCached ==
    \A p \in Procs :
        /\ (Done(p) /\ inv[p].ranAction /\ IsSystemFailure(inv[p].actionErr))
             => /\ inv[p].err = inv[p].actionErr
                /\ ~inv[p].committed
                /\ RecordsOf(db, KeyOf(p)) = {}
                /\ db = inv[p].snap
        /\ RetryOfSystemFailure(p) => inv[p].ranAction

\* A retry runs the Action a second time after a repository error.
C6_Witness ==
    \E p \in Procs :
        /\ RetryOfSystemFailure(p)
        /\ last[KeyOf(p)].err = ErrRepository
        /\ inv[p].ranAction
        /\ actionRuns[KeyOf(p)] = 2

\* C7: when the Action succeeds and SaveSuccessOutput fails, the call returns
\* a SuccessOutputStoreError wrapping the error of the save, and the committed
\* state is the one the transaction started from.
C7_AtomicRecordOfSuccess ==
    \A p \in Procs :
        (Done(p) /\ inv[p].ranAction /\ inv[p].actionErr = Nil /\ inv[p].storeErr # Nil)
           => /\ IsSuccessOutputStoreError(inv[p].err)
              /\ StoreErrOf(inv[p].err) = inv[p].storeErr
              /\ ~inv[p].committed
              /\ db = inv[p].snap

\* The Action moved money in the transaction, the save failed, and the
\* committed balances are those from before.
C7_Witness ==
    \E p \in Procs :
        /\ Done(p)
        /\ inv[p].ranAction /\ inv[p].actionErr = Nil /\ inv[p].storeErr # Nil
        /\ inv[p].tx.accounts # inv[p].snap.accounts
        /\ db = inv[p].snap

\* C8: when the Action fails with a business failure and SaveFailOutput fails,
\* the call returns a FailureOutputStoreError holding the error of the save
\* and the Action's error, and the committed state is the one the transaction
\* started from, with no Record for the key.
C8_FailureOutputStoreError ==
    \A p \in Procs :
        (Done(p) /\ inv[p].ranAction /\ IsBusinessFailure(inv[p].actionErr)
           /\ inv[p].storeErr # Nil)
           => /\ IsFailureOutputStoreError(inv[p].err)
              /\ StoreErrOf(inv[p].err) = inv[p].storeErr
              /\ OriginalExecErrOf(inv[p].err) = inv[p].actionErr
              /\ ~inv[p].committed
              /\ RecordsOf(db, KeyOf(p)) = {}
              /\ db = inv[p].snap

\* The save of an insufficient-funds failure failed.
C8_Witness ==
    \E p \in Procs :
        /\ Done(p)
        /\ inv[p].actionErr = ErrInsufficientFunds
        /\ inv[p].storeErr # Nil
        /\ IsFailureOutputStoreError(inv[p].err)

\* The committed Action runs under key k in which the transfer was made.
IsApplied(run) == run.actionErr = Nil
Applied(k) == SelectSeq(committedRuns[k], IsApplied)
\* What the transfer doTransfer makes for input in adds to the balance of a.
Delta(in, a) ==
    IF a = in.ToAccount THEN in.Amount
    ELSE IF a = in.FromAccount THEN 0 - in.Amount
    ELSE 0
RECURSIVE SumOfRuns(_, _)
SumOfRuns(runs, a) ==
    IF runs = <<>> THEN 0
    ELSE Delta(Head(runs).input, a) + SumOfRuns(Tail(runs), a)
RECURSIVE SumOfKeys(_, _)
SumOfKeys(ks, a) ==
    IF ks = {} THEN 0
    ELSE LET k == CHOOSE k \in ks : TRUE IN
         SumOfRuns(Applied(k), a) + SumOfKeys(ks \ {k}, a)

\* C9: in every committed state, for every key, the transfer made under the
\* key is in the balances exactly once when a success Record for the key is
\* committed and not at all otherwise: the balances are the initial ones plus
\* the transfers of the keys that have a success Record.
C9_Atomicity ==
    /\ \A k \in Keys :
          LET success == {r \in RecordsOf(db, k) : r.SuccessOutput} IN
          /\ Len(Applied(k)) = IF success # {} THEN 1 ELSE 0
          /\ \A r \in success : r.InputHash = Hash(Applied(k)[1].input)
    /\ \A a \in AccountIds :
          db.accounts[a] = InitBalance + SumOfKeys(Keys, a)

\* A transfer is committed with its success Record, and a later call whose
\* Action wrote to an account is rolled back.
C9_Witness ==
    /\ \E k \in Keys : Len(Applied(k)) = 1
    /\ \E a \in AccountIds : db.accounts[a] # InitBalance
    /\ \E p \in Procs :
          /\ Done(p)
          /\ inv[p].ranAction
          /\ ~inv[p].committed
          /\ inv[p].tx.accounts # inv[p].snap.accounts

\* The call of p ran at the same time as another call with the same key and
\* input, which has returned before it.
SecondOfConcurrentPair(p) ==
    /\ Done(p)
    /\ inv[p].partners # {}
    /\ last[KeyOf(p)].nth \in inv[p].partners

\* C10 as stated: of two concurrent calls with the same key and input, the
\* Action's transfer is committed at most once and both return the same
\* success output.
C10_ConcurrentSameKeyAsStated ==
    /\ \A k \in Keys : Len(Applied(k)) <= 1
    /\ \A p \in Procs :
          SecondOfConcurrentPair(p)
             => inv[p].successOutput = last[KeyOf(p)].successOutput

\* C10 as amended: of two concurrent calls with the same key and input, the
\* Action's transfer is committed at most once, and when the transaction of
\* the call that returns first commits, the other call returns the same
\* success output and error without invoking the Action.
C10_ConcurrentSameKey ==
    /\ \A k \in Keys : Len(Applied(k)) <= 1
    /\ \A p \in Procs :
          (SecondOfConcurrentPair(p) /\ last[KeyOf(p)].committed)
             => SameResult(inv[p], last[KeyOf(p)]) /\ ~inv[p].ranAction

\* Two calls with one key and input overlap; the first runs the Action and
\* commits, the second returns the first one's transaction id.
C10_Witness ==
    \E p \in Procs :
        /\ SecondOfConcurrentPair(p)
        /\ last[KeyOf(p)].committed
        /\ last[KeyOf(p)].ranAction
        /\ inv[p].successOutput = TransferSuccess(Uuid(1))
        /\ ~inv[p].ranAction

\* C11: a committed Record is never changed and never removed: every step of
\* every Wrap call, whatever its key, input and outcome, leaves each Record of
\* the committed idempotency table in the table as it is.
C11_RecordImmutable ==
    [][\A r \in db.records : r \in db'.records]_vars

\* A Record is committed, and a later call with its key and another
\* fingerprint has been rejected and left the Record as it was.
C11_Witness ==
    \E k \in Keys :
        /\ RecordsOf(db, k) # {}
        /\ callsOf[k] >= 2
        /\ \E p \in Procs :
              /\ Done(p)
              /\ KeyOf(p) = k
              /\ SeenRecords(p) # {}
              /\ inv[p].err = ErrHashMismatch
              /\ RecordsOf(db, k) = SeenRecords(p)

(***************************************************************************)
(* The IdempotencyStore on its own: callers hand Records to Save inside a  *)
(* write transaction of the memdb UnitOfWork.                              *)
(***************************************************************************)
\* The Records handed to Save: a success and a failure Record per key and
\* fingerprint.
SavedRecords ==
    {Record(k, h, TRUE, MarshalSuccess(TransferSuccess(Uuid(1)))) :
        k \in Keys, h \in {"A:A:1", "A:A:3"}}
    \cup
    {Record(k, h, FALSE, MarshalFailure(TransferFailure(ErrorString(ErrInsufficientFunds)))) :
        k \in Keys, h \in {"A:A:1", "A:A:3"}}

\* UnitOfWork.Execute of a function that calls Save(record) on the store of
\* the transaction and returns what Save returned.
StoreSave(p, record, insertFails) ==
    LET s == Save(db.records, record, insertFails) IN
    /\ calls < MaxCalls
    /\ CanBegin(writer)
    /\ inv' = [inv EXCEPT ![p] =
                 [Idle EXCEPT !.pc = "saved", !.key = record.ID,
                              !.snap = db,
                              !.tx = Tables(db.accounts, s.records),
                              !.fnErr = s.err, !.err = s.err, !.storeErr = s.err,
                              !.committed = Commits(s.err)]]
    /\ db' = IF Commits(s.err) THEN Tables(db.accounts, s.records) ELSE db
    /\ calls' = calls + 1
    /\ UNCHANGED <<writer, nextUuid, history>>

NextStore ==
    \E p \in Procs, record \in SavedRecords, insertFails \in BOOLEAN :
        StoreSave(p, record, insertFails)

SpecStore == Init /\ [][NextStore]_vars

\* C12: a Save of a Record whose key has a Record in the idempotency table
\* leaves the stored Record of that key as it was.
C12_SaveIsInsertOnly ==
    \A p \in Procs :
        (inv[p].pc = "saved" /\ RecordsOf(inv[p].snap, inv[p].key) # {})
           => RecordsOf(inv[p].tx, inv[p].key) = RecordsOf(inv[p].snap, inv[p].key)

\* C13: a Record is written only by a transaction in which the Action has
\* run, and only under the key of that call; every committed Record belongs to
\* the one committed Action run of its key, is flagged as a success exactly
\* when that run returned no error, and carries the hash of that run's input;
\* the Record of a committed run is never missing afterwards.
C13_RecordLifecycle ==
    /\ \A k \in Keys :
          /\ Cardinality(RecordsOf(db, k)) <= 1
          /\ Len(committedRuns[k]) <= 1
          /\ (RecordsOf(db, k) # {}) <=> (Len(committedRuns[k]) = 1)
          /\ \A r \in RecordsOf(db, k) :
                /\ r.SuccessOutput <=> (committedRuns[k][1].actionErr = Nil)
                /\ r.InputHash = Hash(committedRuns[k][1].input)
    /\ \A p \in Procs :
          inv[p].pc \notin {"idle", "saved"}
             => /\ \A k \in Keys \ {inv[p].key} :
                      RecordsOf(inv[p].tx, k) = RecordsOf(inv[p].snap, k)
                /\ RecordsOf(inv[p].tx, inv[p].key) # RecordsOf(inv[p].snap, inv[p].key)
                      => /\ inv[p].ranAction
                         /\ inv[p].pc \in {"finish", "done"}
                         /\ RecordsOf(inv[p].snap, inv[p].key) = {}

\* A failure Record is committed under one key after a call with that key
\* rolled back, and a call with the other key whose Action ran has rolled
\* back without leaving a Record.
C13_Witness ==
    /\ \E k \in Keys :
          /\ \E r \in RecordsOf(db, k) : ~r.SuccessOutput
          /\ actionRuns[k] = 2
    /\ \E p \in Procs :
          /\ Done(p)
          /\ inv[p].ranAction
          /\ ~inv[p].committed
          /\ RecordsOf(db, KeyOf(p)) = {}

\* The lookup of p's call found a Record of its key with the fingerprint of
\* its input.
FoundMatching(p) ==
    /\ Done(p)
    /\ \E r \in SeenRecords(p) : r.InputHash = inv[p].hash

\* C14 as stated: when the lookup finds a Record with a matching fingerprint,
\* a cached success or a cached failure, the transaction function writes
\* nothing and the transaction is committed.
C14_CachedPathCommitsAsStated ==
    \A p \in Procs :
        FoundMatching(p)
           => /\ inv[p].tx = inv[p].snap
              /\ inv[p].committed

\* C14 as amended: when the lookup finds a Record with a matching
\* fingerprint, the transaction function writes nothing and does not invoke
\* the Action; on a cached success it returns nil and the transaction is
\* committed, on a cached failure it returns the reconstructed error and the
\* transaction is rolled back; the committed state is the same either way.
C14_CachedPathWritesNothing ==
    \A p \in Procs :
        FoundMatching(p)
           => /\ inv[p].tx = inv[p].snap
              /\ db = inv[p].snap
              /\ ~inv[p].ranAction
              /\ inv[p].ok
              /\ \A r \in SeenRecords(p) :
                    /\ r.SuccessOutput => (inv[p].committed /\ inv[p].err = Nil)
                    /\ ~r.SuccessOutput
                          => (~inv[p].committed /\ inv[p].err = FailureToError(ZeroFailure))

\* A cached failure is replayed and its transaction is rolled back.
C14_Witness ==
    \E p \in Procs :
        /\ FoundMatching(p)
        /\ \E r \in SeenRecords(p) : ~r.SuccessOutput
        /\ inv[p].err = ErrInsufficientFunds
        /\ ~inv[p].committed

(***************************************************************************)
(* The Wrapper over collaborators that can fail where the transfer         *)
(* service's cannot: a Hasher whose Hash returns an error, a Store whose   *)
(* Get returns an error other than not-found, a Serializer whose Unmarshal *)
(* returns an error, and an Action that returns a value next to its error. *)
(***************************************************************************)
\* Number of Wrap calls made in one behaviour with such collaborators.
MaxGenericCalls == 2

\* The error a Hasher returns from Hash.
ErrHash == NewError(<<"hash error">>)
\* The error txn.First returns.
ErrFirst == NewError(<<"memdb: first failed">>)
\* The error a Serializer returns from Unmarshal.
ErrUnmarshal == NewError(<<"json: unmarshal error">>)

\* IdempotencyStore.Get; firstFails says that txn.First returns an error.
GetWith(records, id, firstFails) ==
    IF firstFails
    THEN [record |-> ZeroRecord,
          err |-> Errorf(ErrorPrefix \o "memdb get error", ErrFirst)]
    ELSE Get(records, id)

\* The ways a lookup can go: no collaborator fails, store.Get fails,
\* Unmarshal of the stored payload fails.
LookupFaults == {"none", "get", "unmarshal"}

\* Mutant of AlreadyProcessedWith: every error of store.Get counts as
\* not-found.
AlreadyProcessedWith_SwallowsGetError(records, idempotencyKey, inputHash, fault) ==
    LET got == GetWith(records, idempotencyKey, fault = "get")
        r   == AlreadyProcessed(records, idempotencyKey, inputHash)
    IN
    IF got.err # Nil
    THEN [ok |-> FALSE, successOutput |-> ZeroSuccess, err |-> Nil,
          cause |-> IF got.err = ErrIdempotencyRecordNotFound THEN Nil ELSE got.err]
    ELSE [ok |-> r.ok, successOutput |-> r.successOutput, err |-> r.err,
          cause |-> Nil]

\* Mutant of AlreadyProcessedWith: a payload that does not unmarshal counts
\* as no Record.
AlreadyProcessedWith_UnmarshalErrorIsMiss(records, idempotencyKey, inputHash, fault) ==
    LET got == GetWith(records, idempotencyKey, fault = "get")
        r   == AlreadyProcessed(records, idempotencyKey, inputHash)
    IN
    IF got.err # Nil /\ got.err # ErrIdempotencyRecordNotFound
    THEN [ok |-> FALSE, successOutput |-> ZeroSuccess, err |-> got.err,
          cause |-> got.err]
    ELSE IF got.err = Nil /\ got.record.InputHash = inputHash /\ fault = "unmarshal"
    THEN LET e == IF got.record.SuccessOutput
                  THEN NewSuccessOutputUnmarshalError(ErrUnmarshal)
                  ELSE NewFailureOutputUnmarshalError(ErrUnmarshal)
         IN [ok |-> FALSE, successOutput |-> ZeroSuccess, err |-> Nil, cause |-> e]
    ELSE [ok |-> r.ok, successOutput |-> r.successOutput, err |-> r.err,
          cause |-> Nil]

\* manager.AlreadyProcessed with a collaborator that may fail; cause is the
\* error store.Get (other than not-found) or Unmarshal returned to it, wrapped
\* as the Manager wraps it.
AlreadyProcessedWith(records, idempotencyKey, inputHash, fault) ==
    LET got == GetWith(records, idempotencyKey, fault = "get")
        r   == AlreadyProcessed(records, idempotencyKey, inputHash)
    IN
    IF got.err # Nil /\ got.err # ErrIdempotencyRecordNotFound
    THEN [ok |-> FALSE, successOutput |-> ZeroSuccess, err |-> got.err,
          cause |-> got.err]
    ELSE IF got.err = Nil /\ got.record.InputHash = inputHash /\ fault = "unmarshal"
    THEN LET e == IF got.record.SuccessOutput
                  THEN NewSuccessOutputUnmarshalError(ErrUnmarshal)
                  ELSE NewFailureOutputUnmarshalError(ErrUnmarshal)
         IN [ok |-> TRUE, successOutput |-> ZeroSuccess, err |-> e, cause |-> e]
    ELSE [ok |-> r.ok, successOutput |-> r.successOutput, err |-> r.err,
          cause |-> Nil]

\* Wrap is entered with the transfer input.
GenericCall(p, k, in) ==
    /\ calls < MaxGenericCalls
    /\ Call(p, k, in)

\* Mutant of HashFails: the error of Hash is ignored and Wrap goes on with
\* the empty hash.
HashFails_Proceeds(p, k, in) ==
    /\ Observed
    /\ calls < MaxGenericCalls
    /\ inv[p].pc = "idle"
    /\ inv' = [inv EXCEPT ![p] =
                 [Idle EXCEPT !.pc = "begin", !.key = k, !.input = in,
                              !.hashErr = ErrHash,
                              !.nth = callsOf[k] + 1]]
    /\ calls' = calls + 1
    /\ callsOf' = [callsOf EXCEPT ![k] = @ + 1]
    /\ UNCHANGED <<db, writer, nextUuid, actionRuns, last, recorded, committedRuns,
                   sameInput>>

\* Wrap is entered and input.Hash() returns an error: Wrap returns it wrapped.
HashFails(p, k, in) ==
    /\ Observed
    /\ calls < MaxGenericCalls
    /\ inv[p].pc = "idle"
    /\ inv' = [inv EXCEPT ![p] =
                 [Idle EXCEPT !.pc = "done", !.key = k, !.input = in,
                              !.hashErr = ErrHash,
                              !.err = Errorf("idempotency wrapper failed to calculate input hash",
                                             ErrHash),
                              !.nth = callsOf[k] + 1]]
    /\ calls' = calls + 1
    /\ callsOf' = [callsOf EXCEPT ![k] = @ + 1]
    /\ UNCHANGED <<db, writer, nextUuid, actionRuns, last, recorded, committedRuns,
                   sameInput>>

\* Mutant of GenericLookup: a Record that is found is deleted from the
\* idempotency table of the transaction.
GenericLookup_ConsumesRecord(p) ==
    /\ Observed
    /\ inv[p].pc = "lookup"
    /\ \E fault \in LookupFaults :
         LET r == AlreadyProcessedWith(inv[p].tx.records, inv[p].key, inv[p].hash, fault)
         IN
         inv' = [inv EXCEPT ![p].ok = r.ok,
                            ![p].successOutput = r.successOutput,
                            ![p].fnErr = r.err,
                            ![p].lookupErr = r.cause,
                            ![p].tx.records = IF r.ok THEN @ \ RecordsOf(inv[p].tx, inv[p].key)
                                              ELSE @,
                            ![p].pc = IF r.ok \/ r.err # Nil THEN "finish" ELSE "action"]
    /\ UNCHANGED <<db, writer, nextUuid, calls, history>>

\* The idempotency check of the transaction function, with a Store and a
\* Serializer that may fail.
GenericLookup(p) ==
    /\ Observed
    /\ inv[p].pc = "lookup"
    /\ \E fault \in LookupFaults :
         LET r == AlreadyProcessedWith(inv[p].tx.records, inv[p].key, inv[p].hash, fault)
         IN
         inv' = [inv EXCEPT ![p].ok = r.ok,
                            ![p].successOutput = r.successOutput,
                            ![p].fnErr = r.err,
                            ![p].lookupErr = r.cause,
                            ![p].pc = IF r.ok \/ r.err # Nil THEN "finish" ELSE "action"]
    /\ UNCHANGED <<db, writer, nextUuid, calls, history>>

\* An Action that does what the transfer does and, when it fails, returns
\* either the zero value or a value of its own next to the error; when it
\* fails for lack of funds it may have credited the receiving account through
\* the AccountRepository of the transaction before it returns the error.
GenericAction(p) ==
    /\ Observed
    /\ inv[p].pc = "action"
    /\ \E fault \in RepoFaults, withValue \in BOOLEAN, writesFirst \in BOOLEAN :
         LET r == DoTransfer(inv[p].tx.accounts, inv[p].input, fault,
                             Uuid(nextUuid + 1))
             out == IF r.err # Nil /\ withValue
                    THEN TransferSuccess(Uuid(nextUuid + 1)) ELSE r.result
             accounts == IF IsBusinessFailure(r.err) /\ writesFirst
                         THEN [r.accounts EXCEPT ![inv[p].input.ToAccount] =
                                                    @ + inv[p].input.Amount]
                         ELSE r.accounts
         IN
         /\ inv' = [inv EXCEPT ![p].successOutput = out,
                               ![p].fnErr = r.err,
                               ![p].tx.accounts = accounts,
                               ![p].ranAction = TRUE,
                               ![p].actionErr = r.err,
                               ![p].pc = AfterAction(r.err)]
         /\ nextUuid' = IF r.err = Nil THEN nextUuid + 1 ELSE nextUuid
    /\ actionRuns' = [actionRuns EXCEPT ![inv[p].key] = @ + 1]
    /\ UNCHANGED <<db, writer, calls, callsOf, last, recorded, committedRuns, sameInput>>

NextGeneric ==
    \E p \in Procs :
        \/ \E k \in Keys, in \in TransferInput : GenericCall(p, k, in)
        \/ \E k \in Keys, in \in TransferInput : HashFails(p, k, in)
        \/ Begin(p)
        \/ GenericLookup(p)
        \/ GenericAction(p)
        \/ SaveFail(p)
        \/ SaveSuccess(p)
        \/ Finish(p)
        \/ Return(p)

SpecGeneric == Init /\ [][NextGeneric]_vars

\* C15: when input.Hash() returns an error, Wrap returns an error that wraps
\* it, without opening a transaction, reading or writing the store, or
\* invoking the Action.
C15_HashFailureIsTerminal ==
    \A p \in Procs :
        (Done(p) /\ inv[p].hashErr # Nil)
           => /\ inv[p].err # inv[p].hashErr
              /\ ErrorsIs(inv[p].err, inv[p].hashErr)
              /\ ~inv[p].began
              /\ ~inv[p].ranAction
              /\ ~inv[p].committed
              /\ ~inv[p].ok
              /\ inv[p].lookupErr = Nil /\ inv[p].storeErr = Nil
              /\ inv[p].tx = EmptyTables
              /\ inv[p].successOutput = ZeroSuccess
              /\ writer # p

\* A call whose hashing failed has returned while a Record for its key is
\* committed.
C15_Witness ==
    \E p \in Procs :
        /\ Done(p)
        /\ inv[p].hashErr = ErrHash
        /\ ~inv[p].began
        /\ RecordsOf(db, KeyOf(p)) # {}

\* C16: when the transaction of a call commits after the failure Record of a
\* business failure was saved, Wrap returns the error of the Action together
\* with the zero success output, whatever value the Action returned next to
\* its error.
C16_ZeroOutputWithBusinessFailure ==
    \A p \in Procs :
        (Done(p) /\ inv[p].ranAction /\ IsBusinessFailure(inv[p].actionErr)
           /\ inv[p].committed)
           => /\ inv[p].err = inv[p].actionErr
              /\ inv[p].successOutput = ZeroSuccess

\* Marshal failed during the save of p's call.
MarshalFailed(p) == Done(p) /\ ErrorsIs(inv[p].storeErr, ErrMarshal)
\* Unmarshal of the stored payload failed during the lookup of p's call.
UnmarshalFailed(p) == Done(p) /\ ErrorsIs(inv[p].lookupErr, ErrUnmarshal)

\* C17 as stated: when Marshal fails during a save or Unmarshal fails during
\* the lookup, Wrap returns the Marshal/Unmarshal error value the Manager
\* produced, not wrapped in another error.
C17_CodecErrorAsIsAsStated ==
    \A p \in Procs :
        /\ MarshalFailed(p) => inv[p].err = inv[p].storeErr
        /\ UnmarshalFailed(p) => inv[p].err = inv[p].lookupErr

\* C17 as amended: when Unmarshal fails during the lookup, Wrap returns the
\* Unmarshal error value the Manager produced; when Marshal fails during a
\* save, Wrap returns a SuccessOutputStoreError (after a successful Action) or
\* a FailureOutputStoreError (after a business failure, with the Action's
\* error) whose wrapped error is the Marshal error value the Manager produced.
C17_CodecError ==
    \A p \in Procs :
        /\ UnmarshalFailed(p)
             => /\ inv[p].err = inv[p].lookupErr
                /\ ErrorString(inv[p].err) \in
                      {ErrorPrefix \o "success output unmarshal error",
                       ErrorPrefix \o "fail output unmarshal error"}
        /\ MarshalFailed(p)
             => /\ inv[p].err # inv[p].storeErr
                /\ StoreErrOf(inv[p].err) = inv[p].storeErr
                /\ ErrorsIs(inv[p].err, ErrMarshal)
                /\ inv[p].actionErr = Nil
                      => /\ IsSuccessOutputStoreError(inv[p].err)
                         /\ ErrorString(inv[p].storeErr) =
                               ErrorPrefix \o "success output marshal error"
                /\ inv[p].actionErr # Nil
                      => /\ IsFailureOutputStoreError(inv[p].err)
                         /\ OriginalExecErrOf(inv[p].err) = inv[p].actionErr
                         /\ ErrorString(inv[p].storeErr) =
                               ErrorPrefix \o "fail output marshal error"

\* Marshal of the success output failed in a call, after a call in which
\* Marshal of the failure output failed.
C17_Witness ==
    \E p \in Procs :
        /\ MarshalFailed(p)
        /\ inv[p].actionErr = Nil
        /\ IsSuccessOutputStoreError(inv[p].err)
        /\ \E k \in Keys :
              /\ last[k].nth > 0
              /\ IsFailureOutputStoreError(last[k].err)
              /\ ErrorsIs(last[k].err, ErrMarshal)

\* C18: whenever Hash, store.Get (other than not-found), Unmarshal, the
\* Action, Marshal, store.Save or UnitOfWork.Execute returned an error during
\* a Wrap call, the call returns a non-nil error.
C18_NoErrorSwallowed ==
    \A p \in Procs :
        (Done(p) /\ (\/ inv[p].hashErr # Nil
                     \/ inv[p].lookupErr # Nil
                     \/ inv[p].actionErr # Nil
                     \/ inv[p].storeErr # Nil
                     \/ inv[p].fnErr # Nil))
           => inv[p].err # Nil

\* Unmarshal of the payload of a committed failure Record failed in a call,
\* after the call whose Action failed committed that Record.
C18_Witness ==
    \E p \in Procs :
        /\ UnmarshalFailed(p)
        /\ \E r \in SeenRecords(p) : ~r.SuccessOutput
        /\ inv[p].err = NewFailureOutputUnmarshalError(ErrUnmarshal)
        /\ recorded[KeyOf(p)].actionErr = ErrInsufficientFunds
        /\ recorded[KeyOf(p)].err # Nil

\* store.Get returned an error other than not-found to the lookup of p's call.
GetFailed(p) == Done(p) /\ ErrorsIs(inv[p].lookupErr, ErrFirst)

\* C20: when the store holds no Record for the key, AlreadyProcessed reports
\* (false, zero, nil) and Wrap goes on to the Action; when store.Get returns
\* another error, AlreadyProcessed returns it unchanged with found = false,
\* and Wrap returns it without invoking the Action or writing anything.
C20_NotFoundAndGetErrors ==
    \A p \in Procs :
        /\ (Done(p) /\ inv[p].began /\ SeenRecords(p) = {} /\ inv[p].lookupErr = Nil)
             => /\ ~inv[p].ok
                /\ inv[p].ranAction
        /\ GetFailed(p)
             => /\ ~inv[p].ok
                /\ inv[p].err = inv[p].lookupErr
                /\ inv[p].err = GetWith({}, inv[p].key, TRUE).err
                /\ inv[p].successOutput = ZeroSuccess
                /\ ~inv[p].ranAction
                /\ inv[p].tx = inv[p].snap
                /\ ~inv[p].committed
                /\ db = inv[p].snap

\* store.Get failed in a call whose key has a committed Record with the
\* fingerprint of its input: the Record is not replayed.
C20_Witness ==
    \E p \in Procs :
        /\ GetFailed(p)
        /\ \E r \in SeenRecords(p) : r.InputHash = inv[p].hash /\ r.SuccessOutput
        /\ inv[p].err # Nil
        /\ ~inv[p].ok

\* C19: UnitOfWork.Execute commits exactly when the transaction function
\* returned nil; then the committed state is the state of the transaction,
\* and the next transaction starts from it; when the function returned an
\* error the committed state is the one from before the transaction and the
\* error Execute returns is that error.
C19_ExecuteCommitsIffNil ==
    /\ \A p \in Procs :
          (Done(p) /\ inv[p].began)
             => /\ inv[p].committed <=> (inv[p].fnErr = Nil)
                /\ inv[p].committed => db = inv[p].tx
                /\ ~inv[p].committed => (db = inv[p].snap /\ inv[p].err = inv[p].fnErr)
    /\ writer # NoWriter => inv[writer].snap = db

\* A transaction that wrote balances and a Record was committed and the next
\* transaction, which started from its state, wrote a balance, failed, and was
\* rolled back.
C19_Witness ==
    \E p \in Procs :
        /\ Done(p)
        /\ ~inv[p].committed
        /\ inv[p].tx.accounts # inv[p].snap.accounts
        /\ inv[p].snap.records # {}
        /\ inv[p].snap.accounts # [a \in AccountIds |-> InitBalance]
        /\ db = inv[p].snap

\* C21: when the payload of the committed Record of the key, whose
\* fingerprint matches, does not unmarshal, the call fails with the
\* SuccessOutputUnmarshalError (success Record) or FailureOutputUnmarshalError
\* (failure Record) that wraps the codec error, the Action is not invoked, and
\* the Record and the rest of the committed state are left as they were.
C21_UndecodablePayload ==
    \A p \in Procs :
        UnmarshalFailed(p)
           => /\ \A r \in SeenRecords(p) :
                    /\ r.InputHash = inv[p].hash
                    /\ inv[p].err = IF r.SuccessOutput
                                    THEN NewSuccessOutputUnmarshalError(ErrUnmarshal)
                                    ELSE NewFailureOutputUnmarshalError(ErrUnmarshal)
              /\ SeenRecords(p) # {}
              /\ ErrorsIs(inv[p].err, ErrUnmarshal)
              /\ ~inv[p].ranAction
              /\ ~inv[p].committed
              /\ inv[p].successOutput = ZeroSuccess
              /\ db = inv[p].snap
              /\ RecordsOf(db, KeyOf(p)) = SeenRecords(p)

\* The payload of a committed success Record did not unmarshal in a replay
\* with the input the Record was committed for.
C21_Witness ==
    \E p \in Procs :
        /\ UnmarshalFailed(p)
        /\ \E r \in SeenRecords(p) : r.SuccessOutput
        /\ recorded[KeyOf(p)].input = inv[p].input
        /\ recorded[KeyOf(p)].successOutput = TransferSuccess(Uuid(1))
        /\ actionRuns[KeyOf(p)] = 1

\* SaveSuccessOutput or SaveFailOutput has returned in the transaction of p.
SaveReturned(p) ==
    /\ inv[p].pc \in {"finish", "done"}
    /\ inv[p].ranAction
    /\ inv[p].actionErr = Nil \/ IsBusinessFailure(inv[p].actionErr)
\* The Record the save of p's call is to write.
RecordToSave(p) ==
    IF inv[p].actionErr = Nil
    THEN Record(inv[p].key, inv[p].hash, TRUE, MarshalSuccess(inv[p].successOutput))
    ELSE Record(inv[p].key, inv[p].hash, FALSE,
                MarshalFailure(ErrorToFailure(inv[p].actionErr).failure))

\* C22: when Marshal fails, SaveSuccessOutput / SaveFailOutput return the
\* success / failure output marshal error and the records of the transaction
\* are as before (store.Save is not called); when store.Save fails its error
\* is returned and the records are as before; otherwise exactly one Record is
\* added, with the given key and fingerprint, the success flag of the save
\* that was called, and the marshalled output as payload.
C22_SaveWritesOneRecordOrNothing ==
    \A p \in Procs :
        SaveReturned(p)
           => /\ ErrorsIs(inv[p].storeErr, ErrMarshal)
                    => /\ inv[p].tx.records = inv[p].snap.records
                       /\ inv[p].storeErr =
                             Errorf(ErrorPrefix \o (IF inv[p].actionErr = Nil
                                                    THEN "success output marshal error"
                                                    ELSE "fail output marshal error"),
                                    ErrMarshal)
              /\ ErrorsIs(inv[p].storeErr, ErrInsert)
                    => inv[p].tx.records = inv[p].snap.records
              /\ inv[p].storeErr = Nil
                    => /\ inv[p].tx.records = inv[p].snap.records \cup {RecordToSave(p)}
                       /\ RecordToSave(p) \notin inv[p].snap.records
              /\ \/ inv[p].storeErr = Nil
                 \/ ErrorsIs(inv[p].storeErr, ErrMarshal)
                 \/ ErrorsIs(inv[p].storeErr, ErrInsert)

\* Marshal failed in SaveSuccessOutput in a transaction that holds the Record
\* an earlier SaveFailOutput wrote under the other key.
C22_Witness ==
    \E p \in Procs :
        /\ SaveReturned(p)
        /\ inv[p].actionErr = Nil
        /\ ErrorsIs(inv[p].storeErr, ErrMarshal)
        /\ \E r \in inv[p].tx.records : ~r.SuccessOutput /\ r.ID # inv[p].key

\* The lookup of p's call found a failure Record of its key with the
\* fingerprint of its input.
ReplayOfFailure(p) ==
    /\ Done(p)
    /\ \E r \in SeenRecords(p) : ~r.SuccessOutput /\ r.InputHash = inv[p].hash

\* C23: the replay of a recorded business failure returns what the Record
\* holds, the insufficient-funds error the recording call returned and the
\* zero output, does not invoke the Action and leaves the balances and records
\* untouched, whatever the balances are at the time of the replay.
C23_FailureReplayIgnoresBalances ==
    \A p \in Procs :
        ReplayOfFailure(p)
           => /\ \A r \in SeenRecords(p) :
                    inv[p].err = FailureToError(UnmarshalFailure(r.Output).v)
              /\ inv[p].err = ErrInsufficientFunds
              /\ inv[p].err = recorded[KeyOf(p)].err
              /\ inv[p].successOutput = ZeroSuccess
              /\ ~inv[p].ranAction
              /\ inv[p].tx = inv[p].snap
              /\ db = inv[p].snap

\* A transfer failed for lack of funds, a transfer under another key then
\* filled the account, and the replay of the first returned the recorded
\* error although the balance now covers the amount.
C23_Witness ==
    \E p \in Procs :
        /\ ReplayOfFailure(p)
        /\ recorded[KeyOf(p)].input = inv[p].input
        /\ inv[p].input.FromAccount # inv[p].input.ToAccount
        /\ db.accounts[inv[p].input.FromAccount] >= inv[p].input.Amount
        /\ inv[p].err = ErrInsufficientFunds

\* The Action of p's call ran, found the funds insufficient, and Wrap
\* returned that error.
FailedForFunds(p) ==
    /\ Done(p)
    /\ inv[p].ranAction
    /\ inv[p].actionErr = ErrInsufficientFunds
    /\ inv[p].err = ErrInsufficientFunds

\* C24: a transfer that returns ErrInsufficientFunds on its first execution
\* leaves every balance as it was and commits one failure Record for its key
\* with the fingerprint of its input.
C24_FailedTransferMovesNothing ==
    \A p \in Procs :
        FailedForFunds(p)
           => /\ inv[p].committed
              /\ db.accounts = inv[p].snap.accounts
              /\ inv[p].successOutput = ZeroSuccess
              /\ RecordsOf(inv[p].snap, KeyOf(p)) = {}
              /\ db.records = inv[p].snap.records \cup
                    {Record(KeyOf(p), inv[p].hash, FALSE,
                            MarshalFailure(ErrorToFailure(ErrInsufficientFunds).failure))}

\* A transfer between two accounts asked for more than the sender holds, after
\* a transfer under another key had moved money.
C24_Witness ==
    \E p \in Procs :
        /\ FailedForFunds(p)
        /\ inv[p].input.FromAccount # inv[p].input.ToAccount
        /\ inv[p].input.Amount > db.accounts[inv[p].input.FromAccount]
        /\ \E a \in AccountIds : db.accounts[a] # InitBalance
        /\ \E r \in db.records : r.ID = KeyOf(p) /\ ~r.SuccessOutput

\* The step with which the Wrap call of p returns.
Returns(p) == inv[p].pc # "done" /\ inv'[p].pc = "done"

\* C25: a Wrap call that does not invoke the Action leaves the committed
\* state unchanged.  The step with which such a call returns changes neither
\* a Record nor a balance, its transaction (if it opened one) holds what it
\* read, and every change of the committed state is the commit of a call that
\* invoked the Action.
C25_NoActionNoChange ==
    [][ /\ \A p \in Procs :
             (Returns(p) /\ ~inv'[p].ranAction)
                => /\ db' = db
                   /\ inv'[p].began => /\ inv'[p].tx = inv'[p].snap
                                       /\ db' = inv'[p].snap
        /\ db' # db => \E p \in Procs : Returns(p) /\ inv'[p].ranAction
      ]_vars

\* A call found the success Record of its key and returned the recorded
\* output: it committed, and the balances and the Record are those the first
\* call left.
C25_Witness ==
    \E p \in Procs :
        /\ Done(p)
        /\ ~inv[p].ranAction
        /\ inv[p].ok
        /\ inv[p].err = Nil
        /\ inv[p].committed
        /\ inv[p].input.FromAccount # inv[p].input.ToAccount
        /\ db = inv[p].snap
        /\ db.accounts[inv[p].input.FromAccount] = InitBalance - inv[p].input.Amount
        /\ RecordsOf(db, KeyOf(p)) # {}

\* The ways a returned Wrap call can have gone after LOOKUP.
CachedSuccess(p) ==
    Done(p) /\ inv[p].began /\ ~inv[p].ranAction /\ inv[p].ok /\ inv[p].err = Nil
CachedFailure(p) ==
    /\ Done(p) /\ inv[p].began /\ ~inv[p].ranAction /\ inv[p].ok
    /\ inv[p].lookupErr = Nil /\ IsBusinessFailure(inv[p].err)
Executed(p) == Done(p) /\ inv[p].ranAction
\* The lookup ended the call: hash mismatch, store.Get error, Unmarshal error.
LookupFailed(p) ==
    /\ Done(p) /\ inv[p].began /\ ~inv[p].ranAction
    /\ inv[p].err = ErrHashMismatch \/ inv[p].lookupErr # Nil
\* Hashing the input ended the call.
FingerprintFailed(p) ==
    Done(p) /\ ~inv[p].began /\ ~inv[p].ranAction /\ inv[p].hashErr # Nil

\* C26 as stated: every returned Wrap call has, after LOOKUP, taken one of
\* CACHED_SUCCESS, CACHED_FAILURE and EXECUTE.
C26_PathAsStated ==
    \A p \in Procs :
        Done(p) => CachedSuccess(p) \/ CachedFailure(p) \/ Executed(p)

\* The moves of one Wrap invocation from one position of its code to the next.
PathSteps ==
    { <<"idle", "begin">>, <<"idle", "done">>, <<"begin", "lookup">>,
      <<"lookup", "finish">>, <<"lookup", "action">>,
      <<"action", "saveSuccess">>, <<"action", "saveFail">>, <<"action", "finish">>,
      <<"saveSuccess", "finish">>, <<"saveFail", "finish">>,
      <<"finish", "done">>, <<"done", "idle">> }

\* What one step may do to the invocation of p.
PathStep(p) ==
    LET c == inv[p]
        d == inv'[p]
    IN
    /\ d.pc # c.pc =>
         /\ <<c.pc, d.pc>> \in PathSteps
         /\ (c.pc = "idle" /\ d.pc = "done") => d.hashErr # Nil
         /\ (c.pc = "idle" /\ d.pc = "begin") => d.hashErr = Nil
         \* EXECUTE only after a lookup miss in the transaction p holds
         /\ d.pc = "action" =>
              /\ ~d.ok /\ d.fnErr = Nil /\ d.lookupErr = Nil
              /\ RecordsOf(c.tx, c.key) = {}
              /\ writer = p /\ ~c.ranAction
         \* CACHED_SUCCESS, CACHED_FAILURE or a lookup that ends the call
         /\ (c.pc = "lookup" /\ d.pc = "finish") =>
              /\ d.ok \/ d.fnErr # Nil
              /\ RecordsOf(c.tx, c.key) # {} \/ d.lookupErr # Nil
         \* the Action returns: exactly one of PERSIST_SUCCESS,
         \* PERSIST_FAILURE and DISCARD
         /\ c.pc = "action" =>
              /\ ~c.ranAction /\ d.ranAction
              /\ actionRuns'[c.key] = actionRuns[c.key] + 1
              /\ d.pc = "saveSuccess" <=> d.actionErr = Nil
              /\ d.pc = "saveFail" <=> IsBusinessFailure(d.actionErr)
              /\ d.pc = "finish" <=> IsSystemFailure(d.actionErr)
         \* a save happens after the Action, and writes at most one Record
         /\ c.pc \in {"saveSuccess", "saveFail"} =>
              /\ c.ranAction
              /\ Cardinality(d.tx.records \ c.tx.records) <= 1
    /\ (~c.ranAction /\ d.ranAction) => c.pc = "action"
    /\ (c.pc \in {"lookup", "action", "finish"}) => d.tx.records = c.tx.records
    /\ (c.pc \in {"lookup", "saveSuccess", "saveFail", "finish"})
          => d.tx.accounts = c.tx.accounts

\* C26: every Wrap invocation goes START, FINGERPRINT, LOOKUP, then CACHED_SUCCESS,
\* CACHED_FAILURE or EXECUTE, then after EXECUTE exactly one of PERSIST_SUCCESS,
\* PERSIST_FAILURE and DISCARD, then END, except that a hashing failure ends
\* it at FINGERPRINT and a hash mismatch or lookup error ends it at LOOKUP;
\* the Action is invoked at most once, only after a lookup miss in the same
\* transaction, and a Record is saved at most once, only after the Action
\* returned.
C26_InvocationPath ==
    [][ /\ \A p \in Procs : PathStep(p)
        /\ \A k \in Keys :
             actionRuns'[k] # actionRuns[k]
                => \E p \in Procs : inv[p].pc = "action" /\ inv[p].key = k
                                    /\ inv'[p].pc # "action"
        /\ \A p \in Procs :
             Returns(p) =>
                /\ (CachedSuccess(p) \/ CachedFailure(p) \/ Executed(p)
                      \/ LookupFailed(p) \/ FingerprintFailed(p))'
                /\ (inv[p].pc = "idle") <=> FingerprintFailed(p)'
      ]_vars

\* One invocation went through EXECUTE and PERSIST_SUCCESS and committed; the
\* invocation before it with the same key ended before EXECUTE with an error.
C26_Witness ==
    \E p \in Procs :
        /\ Executed(p)
        /\ inv[p].actionErr = Nil
        /\ inv[p].committed
        /\ RecordsOf(db, KeyOf(p)) # {}
        /\ last[KeyOf(p)].nth > 0
        /\ ~last[KeyOf(p)].ranAction
        /\ last[KeyOf(p)].err # Nil

\* A Record was saved in the transaction of p's call: the idempotency table
\* of the transaction holds a Record of the key that the table it began with
\* did not hold.
RecordSaved(p) == RecordsOf(inv[p].tx, KeyOf(p)) \ RecordsOf(inv[p].snap, KeyOf(p)) # {}

\* C27: a Wrap transaction in which the Action was invoked commits if and
\* only if a Record, success or failure, was saved in it; the business
\* outcome does not decide.  On commit the database is the transaction with
\* that one Record, on rollback it is what the transaction began with.
C27_CommitFollowsRecordWrite ==
    \A p \in Procs :
        Executed(p)
           => /\ inv[p].committed <=> RecordSaved(p)
              /\ RecordSaved(p) <=> (~IsSystemFailure(inv[p].actionErr) /\ inv[p].storeErr = Nil)
              /\ inv[p].committed => /\ db = inv[p].tx
                                     /\ RecordsOf(db, KeyOf(p)) = {RecordToSave(p)}
              /\ ~inv[p].committed => db = inv[p].snap

\* A transfer that succeeded was rolled back because its Record could not be
\* saved, while the database holds the committed failure Record of a transfer
\* under another key that failed for lack of funds.
C27_Witness ==
    \E p \in Procs :
        /\ Executed(p)
        /\ inv[p].actionErr = Nil
        /\ ~inv[p].committed
        /\ inv[p].tx.accounts # db.accounts
        /\ \E k \in Keys \ {KeyOf(p)} :
              /\ recorded[k].nth > 0
              /\ recorded[k].actionErr = ErrInsufficientFunds
              /\ recorded[k].committed
              /\ \E r \in RecordsOf(db, k) : ~r.SuccessOutput

\* C28: Records are found by key alone.  A call whose key has no Record is a
\* miss and invokes the Action, whatever Records other keys have, also one
\* with the fingerprint of its input; a cache hit or a hash mismatch comes
\* from a Record of the call's own key; and a call that commits writes the
\* Record of its own key and leaves the Records of other keys as they were.
C28_LookupByKeyAlone ==
    \A p \in Procs :
        (Done(p) /\ inv[p].began)
           => /\ SeenRecords(p) = {}
                    => /\ ~inv[p].ok
                       /\ inv[p].err # ErrHashMismatch
                       /\ inv[p].ranAction
              /\ (inv[p].ok \/ inv[p].err = ErrHashMismatch)
                    => \E r \in SeenRecords(p) :
                          (r.InputHash = inv[p].hash) <=> inv[p].ok
              /\ (inv[p].ranAction /\ inv[p].committed)
                    => RecordsOf(db, KeyOf(p)) = {RecordToSave(p)}
              /\ \A k \in Keys \ {KeyOf(p)} :
                    RecordsOf(db, k) = RecordsOf(inv[p].snap, k)

\* Two calls with different keys carried the same input: each invoked the
\* Action once and each committed a Record, the two with the same fingerprint.
C28_Witness ==
    \E p \in Procs :
        /\ Executed(p)
        /\ inv[p].committed
        /\ inv[p].actionErr = Nil
        /\ \E k \in Keys \ {KeyOf(p)} :
              /\ recorded[k].input = inv[p].input
              /\ recorded[k].nth > 0
              /\ recorded[k].ranAction
              /\ actionRuns[k] = 1
              /\ \E r \in RecordsOf(inv[p].snap, k) : r.InputHash = inv[p].hash
              /\ \E r \in RecordsOf(db, k) : r.InputHash = inv[p].hash
        /\ actionRuns[KeyOf(p)] = 1
        /\ \E r \in RecordsOf(db, KeyOf(p)) : r.InputHash = inv[p].hash

\* C29: whenever Wrap returns a non-nil error (an error of saving the outcome
\* of the Action, an Action error, a lookup error), the success output it
\* returns is the zero value.
C29_ZeroOutputWithError ==
    \A p \in Procs :
        (Done(p) /\ inv[p].err # Nil) => inv[p].successOutput = ZeroSuccess

\* The latest call with the key of p's call that returned before p's call
\* began invoked the Action and was rolled back, for a system failure of the
\* Action or a failure to save its outcome; no other call with the key ran
\* during p's call, and p's input has another fingerprint.
NewInputAfterRollback(p) ==
    LET before == last[KeyOf(p)] IN
    /\ Done(p)
    /\ inv[p].alone
    /\ before.nth > 0
    /\ before.ranAction
    /\ \/ IsSystemFailure(before.actionErr)
       \/ IsSuccessOutputStoreError(before.err)
       \/ IsFailureOutputStoreError(before.err)
    /\ Hash(before.input) # inv[p].hash

\* C30: a key is bound to an input only by a committed Record.  When the
\* previous call with key k was rolled back after its Action failed with a
\* system failure or its outcome could not be saved, the next call with k and
\* an input with another fingerprint finds no Record, is not rejected with
\* ErrHashMismatch and invokes the Action with the new input; if it commits,
\* the Record of k carries the fingerprint of the new input.
C30_RollbackBindsNothing ==
    \A p \in Procs :
        NewInputAfterRollback(p)
           => /\ ~last[KeyOf(p)].committed
              /\ SeenRecords(p) = {}
              /\ ~inv[p].ok
              /\ inv[p].err # ErrHashMismatch
              /\ inv[p].ranAction
              /\ inv[p].committed
                    => /\ RecordsOf(db, KeyOf(p)) = {RecordToSave(p)}
                       /\ recorded[KeyOf(p)].input = inv[p].input
                       /\ committedRuns[KeyOf(p)]
                             = << [input |-> inv[p].input, actionErr |-> inv[p].actionErr] >>

\* A transfer was rolled back because its success output could not be saved;
\* the next call with the key asked for another transfer, which was executed
\* and committed.
C30_Witness ==
    \E p \in Procs :
        /\ NewInputAfterRollback(p)
        /\ IsSuccessOutputStoreError(last[KeyOf(p)].err)
        /\ last[KeyOf(p)].actionErr = Nil
        /\ inv[p].actionErr = Nil
        /\ inv[p].committed
        /\ inv[p].input.FromAccount # inv[p].input.ToAccount
        /\ db.accounts[inv[p].input.ToAccount] = InitBalance + inv[p].input.Amount
        /\ \E r \in RecordsOf(db, KeyOf(p)) : r.InputHash = inv[p].hash

\* The Action of p's call wrote to the accounts of the transaction and
\* returned a business failure, and the failure Record was saved.
WroteAndFailed(p) ==
    /\ Executed(p)
    /\ IsBusinessFailure(inv[p].actionErr)
    /\ inv[p].storeErr = Nil
    /\ inv[p].tx.accounts # inv[p].snap.accounts

\* C31: when an Action writes through the repositories of the transaction and
\* then returns a classified business error, and the failure Record is saved,
\* the transaction commits those writes together with the failure Record; a
\* replay of the key returns the recorded error, does not invoke the Action
\* and leaves balances and Records as the first call committed them.
C31_BusinessFailureKeepsWrites ==
    \A p \in Procs :
        /\ WroteAndFailed(p)
              => /\ inv[p].committed
                 /\ inv[p].err = inv[p].actionErr
                 /\ db = inv[p].tx
                 /\ db.accounts # inv[p].snap.accounts
                 /\ RecordsOf(db, KeyOf(p)) = {RecordToSave(p)}
                 /\ db.records = inv[p].snap.records \cup {RecordToSave(p)}
        /\ (Done(p) /\ inv[p].lookupErr = Nil
              /\ \E r \in SeenRecords(p) : ~r.SuccessOutput /\ r.InputHash = inv[p].hash)
              => /\ ~inv[p].ranAction
                 /\ inv[p].err = recorded[KeyOf(p)].actionErr
                 /\ db = inv[p].snap
                 /\ inv[p].tx = inv[p].snap

\* The first call with a key credited the receiving account and then failed
\* for lack of funds; its replay found the failure Record and the credit, and
\* left both.
C31_Witness ==
    \E p \in Procs :
        /\ Done(p)
        /\ ~inv[p].ranAction
        /\ inv[p].err = ErrInsufficientFunds
        /\ \E r \in SeenRecords(p) : ~r.SuccessOutput /\ r.InputHash = inv[p].hash
        /\ recorded[KeyOf(p)].actionErr = ErrInsufficientFunds
        /\ recorded[KeyOf(p)].input = inv[p].input
        /\ inv[p].input.FromAccount # inv[p].input.ToAccount
        /\ actionRuns[KeyOf(p)] = 1
        /\ db.accounts[inv[p].input.ToAccount] = InitBalance + inv[p].input.Amount
        /\ db.accounts[inv[p].input.FromAccount] = InitBalance

\* The sum of the balances of the accounts ids in an accounts table.
RECURSIVE TotalBalance(_, _)
TotalBalance(accounts, ids) ==
    IF ids = {} THEN 0
    ELSE LET a == CHOOSE a \in ids : TRUE IN
         accounts[a] + TotalBalance(accounts, ids \ {a})

\* C32: the sum of all account balances is the same in every committed
\* state: whatever Transfer calls were made, with any keys and inputs over
\* existing accounts, it is the sum fillDB put there.
C32_MoneyConserved ==
    TotalBalance(db.accounts, AccountIds) = Cardinality(AccountIds) * InitBalance

(***************************************************************************)
(* Transfers with signed amounts.  TransferInput.Amount is an int64 and     *)
(* nothing between the caller and domain.Transfer looks at its sign.        *)
(***************************************************************************)
\* Wrap calls made in a run with signed amounts.
MaxSignedCalls == 2

\* Amounts of the transfers: negative, zero and positive.
SignedAmounts == {0 - 3, 0, 1, 3}

\* dto.TransferInput with any int64 Amount
SignedTransferInput ==
    [FromAccount : AccountIds, ToAccount : AccountIds, Amount : SignedAmounts]

\* Wrap is entered with an input whose Amount has any sign.
SignedCall(p, k, in) ==
    /\ calls < MaxSignedCalls
    /\ Call(p, k, in)

NextSigned ==
    \E p \in Procs :
        \/ \E k \in Keys, in \in SignedTransferInput : SignedCall(p, k, in)
        \/ Begin(p)
        \/ Lookup(p)
        \/ RunAction(p)
        \/ SaveFail(p)
        \/ SaveSuccess(p)
        \/ Finish(p)
        \/ Return(p)

SpecSigned == Init /\ [][NextSigned]_vars

\* C33: no account balance is negative in any committed state, whatever the
\* sign of the amounts of the Transfer calls made.
C33_NoNegativeBalance ==
    \A a \in AccountIds : db.accounts[a] >= 0

\* The goroutine p is inside the transaction function of its Wrap call.
InTransaction(p) ==
    inv[p].pc \in {"lookup", "action", "saveSuccess", "saveFail", "finish"}

\* The tables the invocation of p leaves when it runs alone, from lookup to
\* commit, on the tables its transaction began with.
SerialResult(p) ==
    LET c == inv[p] IN
    IF ~c.ranAction THEN c.snap
    ELSE Tables(IF c.actionErr = Nil
                THEN DoTransfer(c.snap.accounts, c.input, "none",
                                c.successOutput.TransactionID).accounts
                ELSE c.snap.accounts,
                c.snap.records \cup {RecordToSave(p)})

\* C34: concurrent invocations lose no update.  At most one invocation is
\* inside its transaction function, and the committed state stays what that
\* transaction began with until it ends; a transaction that commits leaves
\* exactly what its invocation yields when run alone on the state it began
\* with, one that aborts leaves that state.  So in every interleaving the
\* committed balances and Records are those of the invocations run one after
\* the other in the order of their transactions.
C34_NoLostUpdate ==
    \A p \in Procs :
        /\ InTransaction(p)
              => /\ writer = p
                 /\ db = inv[p].snap
                 /\ \A q \in Procs \ {p} : ~InTransaction(q)
        /\ (Done(p) /\ inv[p].committed) => db = inv[p].tx /\ db = SerialResult(p)
        /\ (Done(p) /\ ~inv[p].committed) => db = inv[p].snap

\* Two invocations with different keys that move money between the same two
\* accounts were running at once: one has committed its transfer on top of a
\* transfer committed before, and the other, called while the first was
\* running, waits for the write transaction.
C34_Witness ==
    \E p \in Procs, q \in Procs :
        /\ Done(p)
        /\ inv[p].committed
        /\ inv[p].ranAction
        /\ inv[p].actionErr = Nil
        /\ inv[p].input.FromAccount # inv[p].input.ToAccount
        /\ inv[p].snap.accounts # [a \in AccountIds |-> InitBalance]
        /\ db.accounts # inv[p].snap.accounts
        /\ inv[q].pc = "begin"
        /\ inv[q].key # inv[p].key
        /\ {inv[q].input.FromAccount, inv[q].input.ToAccount}
              = {inv[p].input.FromAccount, inv[p].input.ToAccount}

\* What a read transaction (db.Txn(false), as getAccount opens) sees: the
\* committed root.
Visible == db

\* The write transaction of p holds a partial attempt: the sending account is
\* debited and the receiving account is not credited.
PartialAttempt(p) ==
    LET in == inv[p].input IN
    /\ InTransaction(p)
    /\ in.FromAccount # in.ToAccount
    /\ inv[p].tx.accounts[in.FromAccount] = inv[p].snap.accounts[in.FromAccount] - in.Amount
    /\ inv[p].tx.accounts[in.ToAccount] = inv[p].snap.accounts[in.ToAccount]

\* The success Records of the idempotency table of t.
SuccessRecords(t) == {r \in t.records : r.SuccessOutput}

\* C35: a reader never observes a partial attempt.  What a read transaction
\* sees changes only when a write transaction commits, and then in one step
\* from the state that transaction began with to the state it ended with: a
\* transfer's debit and credit appear together, and the balances change in
\* exactly the steps in which the success Record of the key of the transfer
\* appears.
C35_ReadersSeeWholeAttempts ==
    [][ /\ Visible' # Visible =>
             \E p \in Procs :
                LET in == inv[p].input IN
                /\ inv[p].pc = "finish" /\ inv'[p].pc = "done"
                /\ inv[p].fnErr = Nil
                /\ Visible = inv[p].snap
                /\ Visible' = inv[p].tx
                /\ Visible'.accounts # Visible.accounts =>
                     /\ Visible'.accounts =
                           DoTransfer(Visible.accounts, in, "none", "").accounts
                     /\ in.FromAccount # in.ToAccount =>
                          /\ Visible'.accounts[in.FromAccount]
                                = Visible.accounts[in.FromAccount] - in.Amount
                          /\ Visible'.accounts[in.ToAccount]
                                = Visible.accounts[in.ToAccount] + in.Amount
                /\ SuccessRecords(Visible') \ SuccessRecords(Visible)
                      \subseteq RecordsOf(Visible', inv[p].key)
        /\ (Visible'.accounts # Visible.accounts)
              <=> (SuccessRecords(Visible') # SuccessRecords(Visible))
        /\ \A p \in Procs : PartialAttempt(p) => Visible' = Visible
      ]_vars

\* The write transaction of a call has debited the sender and failed to
\* credit the receiver; the committed root, which holds the transfer and the
\* success Record of an earlier call, shows nothing of it.
C35_Witness ==
    \E p \in Procs :
        /\ PartialAttempt(p)
        /\ inv[p].pc = "finish"
        /\ inv[p].fnErr = ErrRepository
        /\ Visible = inv[p].snap
        /\ Visible.accounts # inv[p].tx.accounts
        /\ Visible.accounts # [a \in AccountIds |-> InitBalance]
        /\ SuccessRecords(Visible) # {}
        /\ RecordsOf(Visible, KeyOf(p)) = {}

(***************************************************************************)
(* Progress.  A goroutine inside Wrap runs on: each step of its invocation  *)
(* is taken once it stays possible, the Action included (an Action that     *)
(* returns), and the write lock of memdb is granted to a goroutine that     *)
(* keeps asking for it.                                                     *)
(***************************************************************************)
\* Wrap calls made in a run in which progress is observed.
MaxLiveCalls == 2

\* Wrap is entered.
LiveCall(p, k, in) ==
    /\ calls < MaxLiveCalls
    /\ Call(p, k, in)

NextLive ==
    \E p \in Procs :
        \/ \E k \in Keys, in \in TransferInput : LiveCall(p, k, in)
        \/ Begin(p)
        \/ Lookup(p)
        \/ RunAction(p)
        \/ SaveFail(p)
        \/ SaveSuccess(p)
        \/ Finish(p)
        \/ Return(p)

\* Fair scheduling of the goroutines and of the write lock.
Fairness ==
    \A p \in Procs :
        /\ SF_vars(Begin(p))
        /\ WF_vars(Lookup(p))
        /\ WF_vars(RunAction(p))
        /\ WF_vars(SaveFail(p))
        /\ WF_vars(SaveSuccess(p))
        /\ WF_vars(Finish(p))
        /\ WF_vars(Return(p))

SpecLive == Init /\ [][NextLive]_vars /\ Fairness

\* The goroutine p waits for the write transaction.
Waiting(p) == inv[p].pc = "begin"

\* C36: under fair scheduling, with an Action that returns, an invocation
\* that waits for the write transaction eventually gets it, an invocation
\* inside its transaction eventually returns with the transaction ended, and
\* the store is never left locked: whenever the write lock is held it is
\* eventually free, and an invocation that has returned does not hold it.
C36_EveryInvocationEnds ==
    /\ \A p \in Procs : Waiting(p) ~> InTransaction(p)
    /\ \A p \in Procs : InTransaction(p) ~> (Done(p) /\ writer # p)
    /\ (writer # NoWriter) ~> (writer = NoWriter)
    /\ [](\A p \in Procs : (writer = p) <=> InTransaction(p))

\* The transaction of one invocation was aborted after its Action failed and
\* the write lock is free, while another invocation, called meanwhile, waits
\* for the write transaction.
C36_Witness ==
    \E p \in Procs, q \in Procs :
        /\ Done(p)
        /\ inv[p].ranAction
        /\ IsSystemFailure(inv[p].actionErr)
        /\ ~inv[p].committed
        /\ writer = NoWriter
        /\ Waiting(q)

====
